---- MODULE Spec2Model ----
(***************************************************************************)
(* Model of the Mi Band NFC "verify" scene (miband_nfc_scene_verify.c):    *)
(* the scene handlers on_enter / on_event / on_exit, the detection poller  *)
(* callback, the sector read engine read_sector_with_keys with its key     *)
(* fallback and per-block retry, the sector loop miband_verify_read_card   *)
(* and the block comparison pass.                                          *)
(*                                                                         *)
(* The GUI thread runs one handler at a time.  The PollerDone handler is   *)
(* cut at every card call (authenticate, read block), because the card's   *)
(* answer is an input of the environment; pc says where the handler is.    *)
(* The poller callback runs on the NFC worker thread and interleaves; its   *)
(* CardDetected branch and the CardDetected handler are cut between their  *)
(* write of the tracker and their read of it, cb and pc say where they are.*)
(***************************************************************************)
EXTENDS Integers, Naturals, Sequences, FiniteSets, TLC

(***************************************************************************)
(* Bounds of the model.                                                    *)
(***************************************************************************)
\* errors (failed authentication, timeout, protocol error) the card may answer
\* in one run of the scene
MaxFaults == 3
\* the card answers errors only to calls at its last 4 * FlakyTail blocks: the
\* last FlakyTail sectors of a card of 4-block sectors
FlakyTail == 3
\* custom events waiting in the view dispatcher's queue
MaxQueue == 2

(***************************************************************************)
(* MIFARE Classic geometry, as the library calls of the scene compute it.  *)
(***************************************************************************)
CardTypes == {"Mini", "1K", "4K"}

mf_classic_get_total_sectors_num(type) ==
    CASE type = "Mini" -> 5
      [] type = "1K" -> 16
      [] type = "4K" -> 40

mf_classic_get_total_block_num(type) ==
    CASE type = "Mini" -> 20
      [] type = "1K" -> 64
      [] type = "4K" -> 256

mf_classic_get_first_block_num_of_sector(s) ==
    IF s < 32 THEN s * 4 ELSE 32 * 4 + (s - 32) * 16

mf_classic_get_blocks_num_in_sector(s) ==
    IF s < 32 THEN 4 ELSE 16

mf_classic_is_sector_trailer(b) ==
    IF b < 32 * 4 THEN (b + 1) % 4 = 0 ELSE (b + 1) % 16 = 0

SectorsOf(type) == 0 .. (mf_classic_get_total_sectors_num(type) - 1)

BlocksOf(type) == 0 .. (mf_classic_get_total_block_num(type) - 1)

\* FURI_BIT(mask, sector): the key masks are kept as the set of set bits
mf_classic_is_key_found(data, s, key_type) ==
    IF key_type = "A" THEN s \in data.key_a_mask ELSE s \in data.key_b_mask

\* block contents are abstract values; mf_classic_reset zeroes the image
ZeroBlock == "zero"

\* content of every block of the reference dump
DumpBlock == "dump"

\* a block content of the card that is not the dump's
OtherBlock == "other"

\* memset to 0: MfClassicTypeMini is the enum's 0
mf_classic_reset(data) ==
    [type |-> "Mini", key_a_mask |-> {}, key_b_mask |-> {},
     block |-> [b \in DOMAIN data.block |-> ZeroBlock]]

\* results of the synchronous card calls
MfClassicErrorNone == "None"

MfClassicErrorTimeout == "Timeout"

AuthErrors == {"Auth", "Timeout"}

ReadErrors == {"Timeout", "Protocol"}

(***************************************************************************)
(* State.                                                                  *)
(***************************************************************************)
VARIABLES
    scene,              \* scene on top of the scene manager's stack
    scene_state,        \* scene_manager_set_scene_state(.., MiBandNfcSceneVerify, ..)
    is_valid_nfc_data,  \* app->is_valid_nfc_data
    poller,             \* app->poller: "NULL" or "handle"
    poller_obj,         \* the poller object: none / running / halted / freed
    queue,              \* custom events of the view dispatcher, oldest first
    view,               \* view shown by the view dispatcher
    shown,              \* outcomes presented to the user since scene entry
    verify_tracker,     \* static VerifyTracker verify_tracker
    mf_classic_data,    \* app->mf_classic_data, the reference dump
    target_data,        \* app->target_data, the freshly read image
    pc,                 \* position of the GUI thread
    sector,             \* loop variable of miband_verify_read_card
    key_idx,            \* loop variable of the key loop
    block_in_sector,    \* loop variable of the block loop
    retry,              \* loop variable of the retry loop
    all_blocks_read,    \* local of read_sector_with_keys
    sector_success,     \* local of miband_verify_read_card
    overall_success,    \* local of miband_verify_read_card
    faults_left,        \* card: errors it may still answer in this run
    poller_events,      \* history: poller events delivered since scene entry
    calls,              \* history: card calls of the current sector, see Record
    sector_hist,        \* history: per sector result of the current run
    cb,                 \* position of the NFC worker thread inside the callback
    back_pending        \* a Back key press waits for the GUI thread

appVars == <<scene, scene_state, is_valid_nfc_data, poller, poller_obj, queue, view, shown,
             cb, back_pending>>

dataVars == <<mf_classic_data, target_data>>

localVars == <<sector, key_idx, block_in_sector, retry, all_blocks_read, sector_success,
               overall_success>>

cardVars == <<faults_left>>

histVars == <<poller_events, calls, sector_hist>>

vars == <<appVars, verify_tracker, dataVars, pc, localVars, cardVars, histVars>>

(***************************************************************************)
(* The tracker.                                                            *)
(***************************************************************************)
\* static VerifyTracker verify_tracker = {0}: the strings are NULL
TrackerZero ==
    [current_sector |-> 0, total_sectors |-> 0, sectors_read |-> 0, sectors_failed |-> 0,
     auth_attempts |-> 0, auth_successes |-> 0, blocks_compared |-> 0,
     blocks_different |-> 0, current_operation |-> <<>>, last_result |-> <<>>,
     error_details |-> <<>>, reading_complete |-> FALSE, allocated |-> FALSE]

\* an initialisation that resets the strings and the flag, not the counters
verify_tracker_init_keeps_counters(t) ==
    [t EXCEPT !.current_operation = <<>>, !.last_result = <<>>, !.error_details = <<>>,
              !.reading_complete = FALSE, !.allocated = TRUE]

verify_tracker_init(t) ==
    [current_sector |-> 0, total_sectors |-> 0, sectors_read |-> 0, sectors_failed |-> 0,
     auth_attempts |-> 0, auth_successes |-> 0, blocks_compared |-> 0,
     blocks_different |-> 0, current_operation |-> <<>>, last_result |-> <<>>,
     error_details |-> <<>>, reading_complete |-> FALSE, allocated |-> TRUE]

verify_tracker_free(t) ==
    IF t.allocated
    THEN [t EXCEPT !.current_operation = <<>>, !.last_result = <<>>,
                   !.error_details = <<>>, !.allocated = FALSE]
    ELSE t

(***************************************************************************)
(* History of card calls.  Kept per sector: the last two calls, the        *)
(* candidates authenticated so far, and for the current key attempt the    *)
(* block read last, how often it was read, how many times in a row it     *)
(* timed out, the block read before it, the number of blocks read and of   *)
(* re-authentications passed; and whether a                  *)
(* re-authentication failed or a read answered an error other than timeout.*)
(***************************************************************************)
NoKey == [data |-> "none", type |-> "A"]

NoCall == [op |-> "none", key |-> NoKey, pos |-> 0, block |-> 0, result |-> "None"]

NoReads ==
    [block |-> -1, nth |-> 0, before |-> -1, touts |-> 0, ok |-> 0, reauths |-> 0,
     read_calls |-> 0, reauth_calls |-> 0]

CallsZero ==
    [last |-> NoCall, prev |-> NoCall, auth_log |-> <<>>, reads |-> NoReads,
     reauth_failed |-> FALSE, hard_error |-> FALSE]

Record(op, key, pos, block, result) ==
    [last |-> [op |-> op, key |-> key, pos |-> pos, block |-> block, result |-> result],
     prev |-> calls.last,
     auth_log |-> IF op = "auth" THEN Append(calls.auth_log, key) ELSE calls.auth_log,
     reads |-> CASE op = "auth" -> NoReads
                 [] op = "reauth" ->
                        [calls.reads EXCEPT
                            !.reauths = IF result = MfClassicErrorNone THEN @ + 1 ELSE @,
                            !.reauth_calls = @ + 1]
                 [] op = "read" ->
                        IF block = calls.reads.block
                        THEN [calls.reads EXCEPT
                                 !.nth = @ + 1,
                                 !.read_calls = @ + 1,
                                 !.touts = IF result = MfClassicErrorTimeout THEN @ + 1 ELSE 0,
                                 !.ok = IF result = MfClassicErrorNone THEN @ + 1 ELSE @]
                        ELSE [calls.reads EXCEPT
                                 !.block = block,
                                 !.nth = 1,
                                 !.read_calls = @ + 1,
                                 !.before = calls.reads.block,
                                 !.touts = IF result = MfClassicErrorTimeout THEN 1 ELSE 0,
                                 !.ok = IF result = MfClassicErrorNone THEN @ + 1 ELSE @],
     reauth_failed |-> calls.reauth_failed \/ (op = "reauth" /\ result # MfClassicErrorNone),
     hard_error |-> calls.hard_error
                       \/ (op = "read" /\ result \notin {MfClassicErrorNone,
                                                          MfClassicErrorTimeout})]

\* per run: the sectors counted as read and as failed, the sectors in which a
\* block timed out three times in a row, the sectors in the order they were
\* started, and auth_attempts and auth_successes as they were when the last
\* one started
SectorHistZero ==
    [ok |-> {}, failed |-> {}, timeout3 |-> {}, order |-> <<>>, attempts |-> 0,
     successes |-> 0]

\* what the poller of this scene entry has reported: nothing yet, a card, a
\* failure with no card reported before it, or another end of its work
PollerEventsZero == "none"

(***************************************************************************)
(* Initial states: the application sits in the main menu, a reference dump *)
(* is loaded (or not), no poller exists.  The card is part of the          *)
(* environment: it may answer up to MaxFaults errors per run, at its last  *)
(* 4 * FlakyTail blocks.  Its block 0 (manufacturer data) and its sector   *)
(* trailers (keys read back masked) never read as the dump has them, and   *)
(* its last data block may or may not.                                     *)
(***************************************************************************)
\* known-key flags of the dump: every key is known, or the four combinations
\* (both, A only, B only, none) rotate over the sectors
KeyMasks(type, pattern) ==
    IF pattern = "all"
    THEN [a |-> SectorsOf(type), b |-> SectorsOf(type)]
    ELSE [a |-> {s \in SectorsOf(type) : s % 4 \in {0, 1}},
          b |-> {s \in SectorsOf(type) : s % 4 \in {0, 2}}]

Dumps ==
    {[type |-> t, key_a_mask |-> KeyMasks(t, k).a, key_b_mask |-> KeyMasks(t, k).b,
      block |-> [b \in BlocksOf(t) |-> DumpBlock]] : t \in CardTypes, k \in {"all", "mixed"}}

\* blocks at which the card may answer an error
Flaky(type) ==
    {b \in BlocksOf(type) : b >= mf_classic_get_total_block_num(type) - 4 * FlakyTail}

\* the data block whose content on the card may differ from the dump
DiffBlock(type) == mf_classic_get_total_block_num(type) - 2

InitApp ==
    /\ scene = "MainMenu"
    /\ scene_state = "CardSearch"
    /\ is_valid_nfc_data \in BOOLEAN
    /\ poller = "NULL"
    /\ poller_obj = "none"
    /\ queue = <<>>
    /\ view = "MainMenu"
    /\ shown = {}
    /\ verify_tracker = TrackerZero
    /\ pc = "idle"
    /\ sector = 0
    /\ key_idx = 0
    /\ block_in_sector = 0
    /\ retry = 0
    /\ all_blocks_read = FALSE
    /\ sector_success = FALSE
    /\ overall_success = FALSE
    /\ poller_events = PollerEventsZero
    /\ calls = CallsZero
    /\ sector_hist = SectorHistZero
    /\ cb = "none"
    /\ back_pending = FALSE

Init ==
    /\ InitApp
    /\ mf_classic_data \in Dumps
    /\ target_data = mf_classic_reset(mf_classic_data)
    /\ faults_left = MaxFaults

(***************************************************************************)
(* Scene entry and exit.                                                   *)
(***************************************************************************)
\* nfc_poller_stop and nfc_poller_free on the poller object: the object is
\* freed; on an object that is freed already the two calls are a use after
\* free, which is kept as a state of its own
Released(po) == IF po = "freed" THEN "freed_twice" ELSE "freed"

\* an exit handler that forgets the poller
on_exit_keeps_poller(p, po, t) ==
    /\ poller' = p
    /\ poller_obj' = po
    /\ verify_tracker' = verify_tracker_free(t)

\* miband_nfc_scene_verify_on_exit, run by the scene manager inside every
\* call that leaves the scene; p, po, t: the poller and tracker it finds
miband_nfc_scene_verify_on_exit(p, po, t) ==
    /\ p # "NULL" => cb = "none"      \* nfc_poller_stop waits for the callback
    /\ poller' = "NULL"
    /\ poller_obj' = IF p # "NULL" THEN Released(po) ELSE po
    /\ verify_tracker' = verify_tracker_free(t)

\* the main menu or the diff viewer hands control to the verify scene; the
\* user's key press that leads here is taken after the custom events that
\* were still queued
miband_nfc_scene_verify_on_enter ==
    /\ pc = "idle"
    /\ scene # "Verify"
    /\ queue = <<>>
    /\ ~back_pending
    /\ IF ~is_valid_nfc_data
       THEN \* scene_manager_previous_scene: on_exit, then the scene below
            /\ miband_nfc_scene_verify_on_exit(poller, poller_obj, verify_tracker)
            /\ UNCHANGED <<scene, scene_state, view, shown, target_data, faults_left,
                           histVars>>
       ELSE /\ verify_tracker' =
                   [verify_tracker_init(verify_tracker) EXCEPT
                       !.current_operation = <<"Place Mi Band near Flipper">>]
            /\ scene' = "Verify"
            /\ scene_state' = "CardSearch"
            /\ view' = "Scanner"
            /\ shown' = {}
            /\ target_data' = [mf_classic_reset(target_data) EXCEPT
                                  !.type = mf_classic_data.type]
            /\ poller' = "handle"
            /\ poller_obj' = "running"
            /\ poller_events' = PollerEventsZero
            /\ calls' = CallsZero
            /\ sector_hist' = SectorHistZero
            /\ faults_left' = MaxFaults
    /\ UNCHANGED <<is_valid_nfc_data, queue, mf_classic_data, pc, localVars, cb,
                   back_pending>>

(***************************************************************************)
(* miband_verify_reader_callback, on the NFC worker thread.                *)
(***************************************************************************)
\* furi_string_set_str on a string the other thread is using at the same
\* time: the text, or a string that is neither the old nor the new text
StringSet(text, other_thread_inside) ==
    IF other_thread_inside THEN {text, <<"garbled">>} ELSE {text}

\* MfClassicPollerEventTypeCardDetected, up to the write of current_operation
CallbackCardDetected ==
    /\ poller_obj = "running"
    /\ cb = "none"
    /\ Len(queue) < MaxQueue
    /\ \E text \in StringSet(<<"Card detected">>, pc = "card_detected") :
          verify_tracker' = [verify_tracker EXCEPT !.current_operation = text]
    /\ cb' = "card_detected"
    /\ poller_events' = "detected"
    /\ UNCHANGED <<scene, scene_state, is_valid_nfc_data, poller, poller_obj, queue, view,
                   shown, back_pending, dataVars, pc, localVars, cardVars, calls,
                   sector_hist>>

\* the rest of the branch: update_verify_ui reads the tracker, then the
\* custom event is sent
CallbackCardDetectedSend ==
    /\ cb = "card_detected"
    /\ cb' = "none"
    /\ queue' = Append(queue, "CardDetected")
    /\ UNCHANGED <<scene, scene_state, is_valid_nfc_data, poller, poller_obj, view, shown,
                   back_pending, verify_tracker, dataVars, pc, localVars, cardVars,
                   histVars>>

CallbackRequestMode ==
    /\ poller_obj = "running"
    /\ cb = "none"
    /\ target_data' = mf_classic_reset(target_data)
    /\ UNCHANGED <<appVars, verify_tracker, mf_classic_data, pc, localVars, cardVars,
                   histVars>>

\* MfClassicPollerEventTypeSuccess or MfClassicPollerEventTypeFail: the same
\* PollerDone event is sent and the poller is told to stop
CallbackDone ==
    /\ poller_obj = "running"
    /\ cb = "none"
    /\ Len(queue) < MaxQueue
    /\ \E type \in {"Success", "Fail"} :
          poller_events' = IF type = "Fail" /\ poller_events = "none"
                           THEN "fail_first" ELSE "done"
    /\ queue' = Append(queue, "PollerDone")
    /\ poller_obj' = "halted"
    /\ UNCHANGED <<scene, scene_state, is_valid_nfc_data, poller, view, shown, cb,
                   back_pending, verify_tracker, dataVars, pc, localVars, cardVars, calls,
                   sector_hist>>

(***************************************************************************)
(* miband_nfc_scene_verify_on_event: the short handlers.                   *)
(***************************************************************************)
\* the GUI thread is in the event loop of the verify scene and takes the
\* oldest custom event
Takes(event) ==
    /\ pc = "idle"
    /\ scene = "Verify"
    /\ queue # <<>>
    /\ Head(queue) = event

\* scene_manager_search_and_switch_to_another_scene(MiBandNfcSceneMainMenu)
\* and scene_manager_next_scene: on_exit of this scene, then the other scene
SwitchTo(other, t) ==
    /\ miband_nfc_scene_verify_on_exit(poller, poller_obj, t)
    /\ scene' = other
    /\ view' = other

\* MiBandNfcCustomEventCardDetected, up to the write of current_operation
OnEventCardDetected ==
    /\ Takes("CardDetected")
    /\ queue' = Tail(queue)
    /\ scene_state' = "Reading"
    /\ \E text \in StringSet(<<"Card detected">>, cb = "card_detected") :
          verify_tracker' = [verify_tracker EXCEPT !.current_operation = text]
    /\ pc' = "card_detected"
    /\ UNCHANGED <<scene, is_valid_nfc_data, poller, poller_obj, view, shown, cb,
                   back_pending, dataVars, localVars, cardVars, histVars>>

\* the rest of the handler: update_verify_ui reads the tracker
OnEventCardDetectedUpdate ==
    /\ pc = "card_detected"
    /\ pc' = "idle"
    /\ UNCHANGED <<appVars, verify_tracker, dataVars, localVars, cardVars, histVars>>

OnEventVerifyExit ==
    /\ Takes("VerifyExit")
    /\ queue' = Tail(queue)
    /\ SwitchTo("MainMenu", verify_tracker)
    /\ UNCHANGED <<scene_state, is_valid_nfc_data, shown, cb, back_pending, dataVars, pc,
                   localVars, cardVars, histVars>>

OnEventVerifyViewDetails ==
    /\ Takes("VerifyViewDetails")
    /\ queue' = Tail(queue)
    /\ SwitchTo("DiffViewer", verify_tracker)
    /\ UNCHANGED <<scene_state, is_valid_nfc_data, shown, cb, back_pending, dataVars, pc,
                   localVars, cardVars, histVars>>

\* no code of the scene sends MiBandNfcCustomEventPollerFailed
OnEventPollerFailed ==
    /\ Takes("PollerFailed")
    /\ queue' = Tail(queue)
    /\ shown' = shown \cup {"detection_failed"}
    /\ SwitchTo("MainMenu",
                [verify_tracker EXCEPT !.error_details = <<"Card detection failed">>])
    /\ UNCHANGED <<scene_state, is_valid_nfc_data, cb, back_pending, dataVars, pc,
                   localVars, cardVars, histVars>>

\* SceneManagerEventTypeBack: the Back key is pressed while the GUI thread
\* waits for events, or a press that was waiting is taken
OnEventBack ==
    /\ pc = "idle"
    /\ scene = "Verify"
    /\ SwitchTo("MainMenu", verify_tracker)
    /\ back_pending' = FALSE
    /\ UNCHANGED <<scene_state, is_valid_nfc_data, queue, shown, cb, dataVars, pc,
                   localVars, cardVars, histVars>>

\* the GUI thread is inside the sector loop of miband_verify_read_card
InSectorLoop == pc \in {"sector_loop", "key_loop", "block_loop", "reauth", "read", "key_end",
                        "sector_end"}

\* the Back key is pressed while the PollerDone handler is in the sector
\* loop: the input event waits until the handler has returned.  The runs
\* explored with such a press are the runs in which the card answers no error.
BackPressed ==
    /\ InSectorLoop
    /\ ~back_pending
    /\ faults_left = MaxFaults
    /\ back_pending' = TRUE
    /\ UNCHANGED <<scene, scene_state, is_valid_nfc_data, poller, poller_obj, queue, view,
                   shown, cb, verify_tracker, dataVars, pc, localVars, cardVars, histVars>>

\* a Back press that still waits when the scene was left goes to the scene
\* that is then on top
OtherSceneBack ==
    /\ pc = "idle"
    /\ scene # "Verify"
    /\ back_pending
    /\ back_pending' = FALSE
    /\ UNCHANGED <<scene, scene_state, is_valid_nfc_data, poller, poller_obj, queue, view,
                   shown, cb, verify_tracker, dataVars, pc, localVars, cardVars, histVars>>

\* verify_dialog_callback: the user presses a button of the differences dialog
DialogResult ==
    /\ pc = "idle"
    /\ scene = "Verify"
    /\ view = "Dialog"
    /\ Len(queue) < MaxQueue
    /\ \E event \in {"VerifyExit", "VerifyViewDetails"} : queue' = Append(queue, event)
    /\ UNCHANGED <<scene, scene_state, is_valid_nfc_data, poller, poller_obj, view, shown,
                   cb, back_pending, verify_tracker, dataVars, pc, localVars, cardVars,
                   histVars>>

\* a custom event that is still queued when the scene is left goes to the
\* handler of the scene that is then on top
OtherSceneEvent ==
    /\ pc = "idle"
    /\ scene # "Verify"
    /\ queue # <<>>
    /\ queue' = Tail(queue)
    /\ UNCHANGED <<scene, scene_state, is_valid_nfc_data, poller, poller_obj, view, shown,
                   cb, back_pending, verify_tracker, dataVars, pc, localVars, cardVars,
                   histVars>>

\* miband_nfc_app_free: the Back key at the main menu is not consumed,
\* view_dispatcher_run returns and the application is freed; a poller that
\* app->poller still names is stopped and freed, the pointer is left as it is.
\* As at scene entry, the key press is taken after the events still queued.
miband_nfc_app_free ==
    /\ pc = "idle"
    /\ scene = "MainMenu"
    /\ queue = <<>>
    /\ ~back_pending
    /\ poller # "NULL" => cb = "none"
    /\ poller_obj' = IF poller # "NULL" THEN Released(poller_obj) ELSE poller_obj
    /\ pc' = "exited"
    /\ UNCHANGED <<scene, scene_state, is_valid_nfc_data, poller, queue, view, shown, cb,
                   back_pending, verify_tracker, dataVars, localVars, cardVars, histVars>>

(***************************************************************************)
(* The card.                                                               *)
(***************************************************************************)
\* the block the GUI thread's next card call is made at: the sector's first
\* block for the authentication of a candidate, the block of the loop for a
\* re-authentication and a read
CallBlock ==
    mf_classic_get_first_block_num_of_sector(sector)
        + (IF pc = "key_loop" THEN 0 ELSE block_in_sector)

\* the card may answer an error to the next call
CanFault ==
    /\ CallBlock \in Flaky(mf_classic_data.type)
    /\ faults_left > 0
    /\ ~back_pending

AuthResults == {MfClassicErrorNone} \cup (IF CanFault THEN AuthErrors ELSE {})

ReadResults == {MfClassicErrorNone} \cup (IF CanFault THEN ReadErrors ELSE {})

Spend(result) == IF result # MfClassicErrorNone THEN faults_left - 1 ELSE faults_left

\* what a successful read of block b may deliver
CardBlocks(b) ==
    CASE b = 0 \/ mf_classic_is_sector_trailer(b) -> {OtherBlock}
      [] b = DiffBlock(mf_classic_data.type) -> {DumpBlock, OtherBlock}
      [] OTHER -> {DumpBlock}

(***************************************************************************)
(* read_sector_with_keys.                                                  *)
(***************************************************************************)
\* the dump's key A of a sector, its key B, and six bytes 0xFF
FallbackKey == [data |-> "FF", type |-> "A"]

\* a key list that starts with the fallback key
keys_to_try_fallback_first(data, s) ==
    <<FallbackKey>>
    \o (IF mf_classic_is_key_found(data, s, "A")
        THEN <<[data |-> "dump_key_a", type |-> "A"]>> ELSE <<>>)
    \o (IF mf_classic_is_key_found(data, s, "B")
        THEN <<[data |-> "dump_key_b", type |-> "B"]>> ELSE <<>>)

\* a key list that gets the fallback key only when the dump has no key
keys_to_try_fallback_if_empty(data, s) ==
    IF mf_classic_is_key_found(data, s, "A") \/ mf_classic_is_key_found(data, s, "B")
    THEN (IF mf_classic_is_key_found(data, s, "A")
          THEN <<[data |-> "dump_key_a", type |-> "A"]>> ELSE <<>>)
         \o (IF mf_classic_is_key_found(data, s, "B")
             THEN <<[data |-> "dump_key_b", type |-> "B"]>> ELSE <<>>)
    ELSE <<FallbackKey>>

\* a block loop that stops one block short of the sector's end
blocks_in_sector_short == mf_classic_get_blocks_num_in_sector(sector) - 1

\* a key list that presents the dump's key A whether it is known or not
keys_to_try_unknown_a(data, s) ==
    <<[data |-> "dump_key_a", type |-> "A"]>>
    \o (IF mf_classic_is_key_found(data, s, "B")
        THEN <<[data |-> "dump_key_b", type |-> "B"]>> ELSE <<>>)
    \o <<FallbackKey>>

keys_to_try(data, s) ==
    (IF mf_classic_is_key_found(data, s, "A")
     THEN <<[data |-> "dump_key_a", type |-> "A"]>> ELSE <<>>)
    \o (IF mf_classic_is_key_found(data, s, "B")
        THEN <<[data |-> "dump_key_b", type |-> "B"]>> ELSE <<>>)
    \o <<FallbackKey>>

keys_count == Len(keys_to_try(mf_classic_data, sector))

first_block == mf_classic_get_first_block_num_of_sector(sector)

blocks_in_sector == mf_classic_get_blocks_num_in_sector(sector)

\* for(key_idx ...): one more candidate, mf_classic_poller_sync_auth answers
AuthKey ==
    /\ pc = "key_loop"
    /\ key_idx < keys_count
    /\ \E error \in AuthResults :
          /\ calls' = Record("auth", keys_to_try(mf_classic_data, sector)[key_idx + 1],
                             0, first_block, error)
          /\ faults_left' = Spend(error)
          /\ IF error # MfClassicErrorNone
             THEN /\ verify_tracker' = [verify_tracker EXCEPT !.auth_attempts = @ + 1]
                  /\ key_idx' = key_idx + 1
                  /\ UNCHANGED <<pc, block_in_sector, all_blocks_read>>
             ELSE /\ verify_tracker' = [verify_tracker EXCEPT !.auth_attempts = @ + 1,
                                                              !.auth_successes = @ + 1]
                  /\ all_blocks_read' = TRUE
                  /\ block_in_sector' = 0
                  /\ pc' = "block_loop"
                  /\ UNCHANGED key_idx
    /\ UNCHANGED <<appVars, dataVars, sector, retry, sector_success, overall_success,
                   poller_events, sector_hist>>

\* the key loop ends without a return true: return false
KeysExhausted ==
    /\ pc = "key_loop"
    /\ key_idx >= keys_count
    /\ sector_success' = FALSE
    /\ pc' = "sector_end"
    /\ UNCHANGED <<appVars, verify_tracker, dataVars, sector, key_idx, block_in_sector, retry,
                   all_blocks_read, overall_success, cardVars, histVars>>

\* a re-authentication before every even block, the first one included
NeedsReauthAtZero(b) == b % 2 = 0

\* a re-authentication before every block but the first
NeedsReauthEveryBlock(b) == b > 0

\* "Re-authenticate every 2 blocks": the test before a block is read
NeedsReauth(b) == b > 0 /\ b % 2 = 0

\* a retry loop that goes round again after any error
RetryAgainAnyError(error, r) == error # MfClassicErrorNone /\ r + 1 < 3

\* the retry loop goes round again: only after a timeout, and while retry < 3
RetryAgain(error, r) == error = MfClassicErrorTimeout /\ r + 1 < 3

\* for(block_in_sector ...): the loop test and the choice of re-authentication
BlockLoop ==
    /\ pc = "block_loop"
    /\ IF block_in_sector < blocks_in_sector
       THEN IF NeedsReauth(block_in_sector)
            THEN pc' = "reauth" /\ UNCHANGED retry
            ELSE pc' = "read" /\ retry' = 0
       ELSE pc' = "key_end" /\ UNCHANGED retry
    /\ UNCHANGED <<appVars, verify_tracker, dataVars, sector, key_idx, block_in_sector,
                   all_blocks_read, sector_success, overall_success, cardVars, histVars>>

ReAuth ==
    /\ pc = "reauth"
    /\ \E error \in AuthResults :
          /\ calls' = Record("reauth", keys_to_try(mf_classic_data, sector)[key_idx + 1],
                             block_in_sector, first_block, error)
          /\ faults_left' = Spend(error)
          /\ IF error # MfClassicErrorNone
             THEN all_blocks_read' = FALSE /\ pc' = "key_end" /\ UNCHANGED retry
             ELSE pc' = "read" /\ retry' = 0 /\ UNCHANGED all_blocks_read
    /\ UNCHANGED <<appVars, verify_tracker, dataVars, sector, key_idx, block_in_sector,
                   sector_success, overall_success, poller_events, sector_hist>>

\* one pass of for(retry ...): mf_classic_poller_sync_read_block answers
ReadBlock ==
    /\ pc = "read"
    /\ \E error \in ReadResults :
          /\ calls' = Record("read", keys_to_try(mf_classic_data, sector)[key_idx + 1],
                             block_in_sector, first_block + block_in_sector, error)
          /\ faults_left' = Spend(error)
          /\ sector_hist' = IF calls'.reads.touts >= 3
                            THEN [sector_hist EXCEPT !.timeout3 = @ \cup {sector}]
                            ELSE sector_hist
          /\ CASE error = MfClassicErrorNone ->
                    /\ \E data \in CardBlocks(first_block + block_in_sector) :
                          target_data' = [target_data EXCEPT
                                             !.block[first_block + block_in_sector] = data]
                    /\ block_in_sector' = block_in_sector + 1
                    /\ pc' = "block_loop"
                    /\ UNCHANGED <<retry, all_blocks_read>>
               [] error # MfClassicErrorNone /\ RetryAgain(error, retry) ->
                    /\ retry' = retry + 1
                    /\ UNCHANGED <<pc, target_data, block_in_sector, all_blocks_read>>
               [] OTHER ->
                    /\ all_blocks_read' = FALSE
                    /\ pc' = "key_end"
                    /\ UNCHANGED <<retry, target_data, block_in_sector>>
    /\ UNCHANGED <<appVars, verify_tracker, mf_classic_data, sector, key_idx, sector_success,
                   overall_success, poller_events>>

\* the two FURI_BIT_SET applied to the dump instead of the read image
SetKeysFoundInDump(dump, target, s) ==
    [dump |-> [dump EXCEPT !.key_a_mask = @ \cup {s}, !.key_b_mask = @ \cup {s}],
     target |-> target]

\* FURI_BIT_SET(app->target_data->key_a_mask, sector) and the same for key B:
\* the read image is written, the dump is left alone
SetKeysFound(dump, target, s) ==
    [dump |-> dump,
     target |-> [target EXCEPT !.key_a_mask = @ \cup {s}, !.key_b_mask = @ \cup {s}]]

\* if(all_blocks_read) return true; otherwise the key loop goes on
KeyEnd ==
    /\ pc = "key_end"
    /\ IF all_blocks_read
       THEN /\ LET images == SetKeysFound(mf_classic_data, target_data, sector)
               IN  /\ mf_classic_data' = images.dump
                   /\ target_data' = images.target
            /\ sector_success' = TRUE
            /\ pc' = "sector_end"
            /\ UNCHANGED key_idx
       ELSE /\ key_idx' = key_idx + 1
            /\ pc' = "key_loop"
            /\ UNCHANGED <<mf_classic_data, target_data, sector_success>>
    /\ UNCHANGED <<appVars, verify_tracker, sector, block_in_sector, retry,
                   all_blocks_read, overall_success, cardVars, histVars>>

(***************************************************************************)
(* miband_verify_read_card.                                                *)
(***************************************************************************)
\* for(sector ...): the loop test, the progress update and the entry of
\* read_sector_with_keys up to its key loop
SectorLoop ==
    /\ pc = "sector_loop"
    /\ IF sector < verify_tracker.total_sectors
       THEN /\ verify_tracker' = [verify_tracker EXCEPT
                                     !.current_sector = sector,
                                     !.current_operation = <<"Reading sector", sector>>]
            /\ key_idx' = 0
            /\ pc' = "key_loop"
            /\ calls' = CallsZero
            /\ sector_hist' = [sector_hist EXCEPT
                                  !.order = Append(@, sector),
                                  !.attempts = verify_tracker.auth_attempts,
                                  !.successes = verify_tracker.auth_successes]
       ELSE /\ pc' = "read_end"
            /\ UNCHANGED <<verify_tracker, key_idx, calls, sector_hist>>
    /\ UNCHANGED <<appVars, dataVars, sector, block_in_sector, retry, all_blocks_read,
                   sector_success, overall_success, cardVars, poller_events>>

\* an overall result that is the result of the last sector
OverallAfterLastSector(overall, success) == success

\* overall_success after a sector: a failed sector sets it to false
OverallAfter(overall, success) == overall /\ success

\* a sector loop that is left at the first failed sector
NextSectorStopOnFailure(s, success) ==
    IF success THEN s + 1 ELSE verify_tracker.total_sectors

\* sector++ of the for statement: a failed sector does not end the loop
NextSector(s, success) == s + 1

\* a count that notes the failed sector in error_details only
CountSectorReadOnly(t, success, s) ==
    IF success
    THEN [t EXCEPT !.sectors_read = @ + 1, !.last_result = <<"Sector OK", s>>]
    ELSE [t EXCEPT !.error_details = <<"Sector failed", s>>]

\* if(sector_success) sectors_read++ and last_result, else sectors_failed++
\* and error_details
CountSector(t, success, s) ==
    IF success
    THEN [t EXCEPT !.sectors_read = @ + 1, !.last_result = <<"Sector OK", s>>]
    ELSE [t EXCEPT !.sectors_failed = @ + 1, !.error_details = <<"Sector failed", s>>]

\* if(sector_success) ... else ...; sector++
SectorEnd ==
    /\ pc = "sector_end"
    /\ verify_tracker' = CountSector(verify_tracker, sector_success, sector)
    /\ sector_hist' = IF sector_success
                      THEN [sector_hist EXCEPT !.ok = @ \cup {sector}]
                      ELSE [sector_hist EXCEPT !.failed = @ \cup {sector}]
    /\ overall_success' = OverallAfter(overall_success, sector_success)
    /\ sector' = NextSector(sector, sector_success)
    /\ pc' = "sector_loop"
    /\ UNCHANGED <<appVars, dataVars, key_idx, block_in_sector, retry, all_blocks_read,
                   sector_success, cardVars, poller_events, calls>>

\* after the loop: reading_complete and the summary; return overall_success
ReadEnd ==
    /\ pc = "read_end"
    /\ verify_tracker' =
          [verify_tracker EXCEPT
              !.current_sector = verify_tracker.total_sectors,
              !.reading_complete = TRUE,
              !.current_operation = IF overall_success THEN <<"Read complete">>
                                    ELSE <<"Read incomplete">>,
              !.last_result = IF overall_success
                              THEN <<"All sectors read", verify_tracker.sectors_read>>
                              ELSE <<"sectors failed", verify_tracker.sectors_failed>>]
    /\ pc' = "after_read"
    /\ UNCHANGED <<appVars, dataVars, localVars, cardVars, histVars>>

(***************************************************************************)
(* miband_nfc_scene_verify_on_event, MiBandNfcCustomEventPollerDone.       *)
(***************************************************************************)
\* a handler that leaves the poller as it finds it
StopAndFreeSkipped(p, po) == [poller |-> p, poller_obj |-> po]

\* a release that leaves the freed handle in app->poller
StopAndFreeKeepsHandle(p, po) ==
    [poller |-> p, poller_obj |-> IF p # "NULL" THEN Released(po) ELSE po]

\* if(app->poller) { nfc_poller_stop; nfc_poller_free; app->poller = NULL; }
StopAndFree(p, po) ==
    [poller |-> "NULL", poller_obj |-> IF p # "NULL" THEN Released(po) ELSE po]

\* the event is taken: the poller is released, the scene state is set and
\* miband_verify_read_card runs up to its sector loop
OnEventPollerDone ==
    /\ Takes("PollerDone")
    /\ queue' = Tail(queue)
    /\ poller # "NULL" => cb = "none"      \* nfc_poller_stop waits for the callback
    /\ poller' = StopAndFree(poller, poller_obj).poller
    /\ poller_obj' = StopAndFree(poller, poller_obj).poller_obj
    /\ scene_state' = "Comparison"
    /\ IF ~is_valid_nfc_data
       THEN /\ overall_success' = FALSE
            /\ pc' = "after_read"
            /\ UNCHANGED <<verify_tracker, target_data, sector>>
       ELSE /\ verify_tracker' =
                   [verify_tracker EXCEPT
                       !.total_sectors =
                           mf_classic_get_total_sectors_num(mf_classic_data.type),
                       !.current_operation = <<"Initializing read">>]
            /\ target_data' = [mf_classic_reset(target_data) EXCEPT
                                  !.type = mf_classic_data.type]
            /\ overall_success' = TRUE
            /\ sector' = 0
            /\ pc' = "sector_loop"
    /\ UNCHANGED <<scene, is_valid_nfc_data, view, shown, cb, back_pending,
                   mf_classic_data, key_idx, block_in_sector, retry, all_blocks_read,
                   sector_success, cardVars, histVars>>

\* a comparison that leaves out block 0 only
SkippedBlockZeroOnly(i) == i = 0

\* a comparison that leaves out the sector trailers but not block 0
SkippedTrailersOnly(i) == mf_classic_is_sector_trailer(i)

\* block i is left out of the comparison
Skipped(i) == i = 0 \/ mf_classic_is_sector_trailer(i)

\* memcmp(dump block, read block, 16) != 0
Differs(i) == mf_classic_data.block[i] # target_data.block[i]

\* the comparison loop over blocks 0 .. total_blocks - 1: every pass counts
\* one block as compared, a pass that skips nothing and finds a difference
\* counts one different block, and every 16th pass sets the operation text
CompareBlocks(total_blocks) ==
    [compared |-> Cardinality(0 .. (total_blocks - 1)),
     different |-> Cardinality({i \in 0 .. (total_blocks - 1) : ~Skipped(i) /\ Differs(i)}),
     operation |-> <<"Comparing block", ((total_blocks - 1) \div 16) * 16, total_blocks>>]

\* the block indices the comparison loop stores: on a difference it sets
\* data_match, counts different_blocks and blocks_different and writes the
\* index to the log (FURI_LOG_W); no variable of the application keeps it
StoredDifferentIndices == {}

\* the handler after miband_verify_read_card returned: the failure exit, or
\* the comparison and its two outcomes
AfterRead ==
    /\ pc = "after_read"
    /\ IF ~overall_success
       THEN /\ shown' = shown \cup {"read_failed"}
            /\ SwitchTo("MainMenu",
                        [verify_tracker EXCEPT
                            !.error_details = <<"Cannot read Mi Band">>])
       ELSE LET result == CompareBlocks(
                              mf_classic_get_total_block_num(mf_classic_data.type))
                tracker == [verify_tracker EXCEPT
                               !.blocks_compared = @ + result.compared,
                               !.blocks_different = @ + result.different,
                               !.current_operation = result.operation]
            IN  IF result.different = 0
                THEN /\ shown' = shown \cup {"success"}
                     /\ SwitchTo("MainMenu", tracker)
                ELSE /\ shown' = shown \cup {"differences"}
                     /\ view' = "Dialog"
                     /\ verify_tracker' = tracker
                     /\ UNCHANGED <<scene, poller, poller_obj>>
    /\ pc' = "idle"
    /\ sector' = 0
    /\ key_idx' = 0
    /\ block_in_sector' = 0
    /\ retry' = 0
    /\ all_blocks_read' = FALSE
    /\ sector_success' = FALSE
    /\ overall_success' = FALSE
    /\ UNCHANGED <<scene_state, is_valid_nfc_data, queue, cb, back_pending, dataVars,
                   cardVars, histVars>>

(***************************************************************************)
(* The specification.                                                      *)
(***************************************************************************)
Next ==
    \/ miband_nfc_scene_verify_on_enter
    \/ CallbackCardDetected
    \/ CallbackCardDetectedSend
    \/ CallbackRequestMode
    \/ CallbackDone
    \/ OnEventCardDetected
    \/ OnEventCardDetectedUpdate
    \/ OnEventPollerDone
    \/ OnEventVerifyExit
    \/ OnEventVerifyViewDetails
    \/ OnEventBack
    \/ BackPressed
    \/ OtherSceneBack
    \/ DialogResult
    \/ OtherSceneEvent
    \/ SectorLoop
    \/ AuthKey
    \/ KeysExhausted
    \/ BlockLoop
    \/ ReAuth
    \/ ReadBlock
    \/ KeyEnd
    \/ SectorEnd
    \/ ReadEnd
    \/ AfterRead
    \/ miband_nfc_app_free

Spec == Init /\ [][Next]_vars

\* the statements of miband_verify_read_card and read_sector_with_keys: they
\* run on the GUI thread inside the PollerDone handler, one after the other,
\* and every card call returns (the driver's calls have their own timeouts)
ReadStep ==
    \/ SectorLoop
    \/ AuthKey
    \/ KeysExhausted
    \/ BlockLoop
    \/ ReAuth
    \/ ReadBlock
    \/ KeyEnd
    \/ SectorEnd
    \/ ReadEnd

\* the same program with the handler's thread scheduled: a read that can
\* take its next statement does take it
FairSpec == Spec /\ WF_vars(ReadStep)

(***************************************************************************)
(* Properties.                                                             *)
(***************************************************************************)
\* the sector the recorded calls belong to
CallsSector == sector_hist.order[Len(sector_hist.order)]

KeyAKnown == CallsSector \in mf_classic_data.key_a_mask

KeyBKnown == CallsSector \in mf_classic_data.key_b_mask

DumpKeyA == [data |-> "dump_key_a", type |-> "A"]

DumpKeyB == [data |-> "dump_key_b", type |-> "B"]

\* position of a key among the candidates authenticated in the sector, 0 if
\* it was not presented
PresentedAt(key) ==
    IF \E i \in 1 .. Len(calls.auth_log) : calls.auth_log[i] = key
    THEN CHOOSE i \in 1 .. Len(calls.auth_log) : calls.auth_log[i] = key
    ELSE 0

\* C1: in every sector the candidates go to the card in the order dump key A
\* (only if the dump marks it known), dump key B (only if marked known),
\* fallback key; each at most once, and the fallback key never before every
\* known dump key of the sector was tried.
C1_KeyOrder ==
    calls.auth_log # <<>> =>
        /\ \A i, j \in 1 .. Len(calls.auth_log) :
              i # j => calls.auth_log[i] # calls.auth_log[j]
        /\ \A i \in 1 .. Len(calls.auth_log) :
              calls.auth_log[i] \in {DumpKeyA, DumpKeyB, FallbackKey}
        /\ PresentedAt(DumpKeyA) # 0 => KeyAKnown /\ PresentedAt(DumpKeyA) = 1
        /\ PresentedAt(DumpKeyB) # 0 =>
              /\ KeyBKnown
              /\ KeyAKnown => PresentedAt(DumpKeyA) = PresentedAt(DumpKeyB) - 1
              /\ ~KeyAKnown => PresentedAt(DumpKeyB) = 1
        /\ PresentedAt(FallbackKey) # 0 =>
              /\ PresentedAt(FallbackKey) = Len(calls.auth_log)
              /\ KeyAKnown => PresentedAt(DumpKeyA) # 0
              /\ KeyBKnown => PresentedAt(DumpKeyB) # 0

\* a sector in which all three candidates went to the card
C1_Witness == calls.auth_log = <<DumpKeyA, DumpKeyB, FallbackKey>>

\* C2: for every sector of every dump the candidate list has 1 to 3 entries,
\* one per key the dump marks known plus one, and its last entry is the
\* 0xFF key of type A.
C2_FallbackLast ==
    \A s \in SectorsOf(mf_classic_data.type) :
        LET keys == keys_to_try(mf_classic_data, s)
            known == {t \in {"A", "B"} : mf_classic_is_key_found(mf_classic_data, s, t)}
        IN  /\ Len(keys) \in 1 .. 3
            /\ Len(keys) = Cardinality(known) + 1
            /\ keys[Len(keys)] = [data |-> "FF", type |-> "A"]

\* a sector with no known key, where the one candidate presented was the
\* fallback key
C2_Witness ==
    /\ pc = "block_loop"
    /\ ~KeyAKnown
    /\ ~KeyBKnown
    /\ calls.auth_log = <<FallbackKey>>

\* C3: within one key attempt a block is read at most 3 times, the blocks are
\* read in increasing order, and a second or third read of a block directly
\* follows a read of that block that timed out.
C3_ReadRetries ==
    /\ calls.reads.nth <= 3
    /\ calls.reads.before < calls.reads.block \/ calls.reads.block = -1
    /\ calls.last.op = "read" /\ calls.reads.nth > 1 =>
          /\ calls.prev.op = "read"
          /\ calls.prev.block = calls.last.block
          /\ calls.prev.key = calls.last.key
          /\ calls.prev.result = "Timeout"

\* a block read for the third time, after two timeouts
C3_Witness ==
    /\ calls.last.op = "read"
    /\ calls.reads.nth = 3
    /\ calls.prev.result = "Timeout"
    /\ calls.last.result = "None"

\* C4: a re-authentication is only issued at a positive even position of the
\* block loop, and the first read of the block at position p directly follows
\* a successful re-authentication at p exactly when p is positive and even.
C4_ReauthPositions ==
    /\ calls.last.op = "reauth" =>
          calls.last.pos \in {p \in 2 .. 15 : p % 2 = 0}
    /\ calls.last.op = "read" /\ calls.reads.nth = 1 =>
          ((/\ calls.prev.op = "reauth"
            /\ calls.prev.pos = calls.last.pos
            /\ calls.prev.result = "None")
           <=> calls.last.pos \in {p \in 2 .. 15 : p % 2 = 0})

\* block 14 of a 16-block sector, read right after a re-authentication
C4_Witness ==
    /\ calls.last.op = "read"
    /\ calls.last.pos = 14
    /\ calls.prev.op = "reauth"
    /\ mf_classic_get_blocks_num_in_sector(CallsSector) = 16

\* the comparison pass of this scene entry has run
Compared == "success" \in shown \/ "differences" \in shown

\* blocks the comparison is to leave out: block 0 and the sector trailers
Excluded(i) == i = 0 \/ mf_classic_is_sector_trailer(i)

\* the blocks that are not left out and differ between dump and read image
Mismatched ==
    {i \in BlocksOf(mf_classic_data.type) :
        ~Excluded(i) /\ mf_classic_data.block[i] # target_data.block[i]}

\* C5: after the comparison pass blocks_compared is the number of blocks that
\* are neither block 0 nor a sector trailer, and blocks_different the number
\* of such blocks that differ.
C5_ComparedExcludesSkipped ==
    Compared =>
        /\ verify_tracker.blocks_compared =
              Cardinality({i \in BlocksOf(mf_classic_data.type) : ~Excluded(i)})
        /\ verify_tracker.blocks_different = Cardinality(Mismatched)

C7_FailedSectorSkipsComparison ==
    verify_tracker.sectors_failed > 0 =>
        /\ verify_tracker.blocks_compared = 0
        /\ verify_tracker.blocks_different = 0
        /\ ~Compared
        /\ pc = "after_read" => ~overall_success
        /\ pc = "idle" => "read_failed" \in shown /\ scene = "MainMenu"

\* a run that read some sectors, failed one and left to the main menu
C7_Witness ==
    /\ pc = "idle"
    /\ verify_tracker.sectors_failed > 0
    /\ verify_tracker.sectors_read > 0
    /\ sector_hist.ok # {}
    /\ \E s \in sector_hist.failed : \E r \in sector_hist.ok : s < r
    /\ shown = {"read_failed"}
    /\ scene = "MainMenu"

\* C8: when the poller reports Fail with no card reported before it, the
\* handler does not start the read: no card call, and no position inside the
\* read.
C8_DetectionFailureStopsRun ==
    poller_events = "fail_first" =>
        /\ pc = "idle"
        /\ verify_tracker.auth_attempts = 0
        /\ calls.last.op = "none"

\* C9: outside the verify scene, that is after its exit handler ran, the
\* application holds no poller and the poller of the entry is freed.
C9_ExitReleasesPoller ==
    scene # "Verify" => poller = "NULL" /\ poller_obj \in {"none", "freed"}

\* the scene was left by Back while the poller was searching for a card
C9_Witness ==
    /\ scene = "MainMenu"
    /\ scene_state = "CardSearch"
    /\ poller_events = "none"
    /\ poller_obj = "freed"
    /\ poller = "NULL"

\* C10: a sector in which a block timed out three times in a row is counted
\* as failed, and the run ends with the read-failed outcome.
C10_TimeoutsFailSector ==
    /\ \A s \in sector_hist.timeout3 : s \notin sector_hist.ok
    /\ (sector_hist.timeout3 # {} /\ pc = "idle" /\ verify_tracker.reading_complete) =>
          "read_failed" \in shown /\ verify_tracker.sectors_failed >= 1

\* the GUI thread is inside the PollerDone handler, at or after the sector
\* loop of miband_verify_read_card
ReadRan == pc \in {"sector_loop", "key_loop", "block_loop", "reauth", "read", "key_end",
                   "sector_end", "read_end", "after_read"}

\* the last card call of the sector was the successful read of its last block
\* under the given key: that key authenticated and read every block
ReadAllWith(key) ==
    /\ sector_hist.order # <<>>
    /\ calls.last.op = "read"
    /\ calls.last.result = "None"
    /\ calls.last.key = key
    /\ calls.last.pos = mf_classic_get_blocks_num_in_sector(CallsSector) - 1

\* auth_attempts counted since the sector of the recorded calls was started
AttemptsInSector == verify_tracker.auth_attempts - sector_hist.attempts

\* C11 as stated: in a sector whose key A is unknown and whose key B is known,
\* once key B has authenticated and read every block, auth_attempts has grown
\* by at least 2 in that sector, and the sector is counted in sectors_read.
C11_AtLeastTwoAttempts ==
    (sector_hist.order # <<>> /\ ~KeyAKnown /\ KeyBKnown /\ ReadAllWith(DumpKeyB)
        /\ pc \in {"sector_end", "sector_loop"})
        => /\ AttemptsInSector >= 2
           /\ pc = "sector_loop" => CallsSector \in sector_hist.ok

\* C11 amended: auth_attempts grows by one per candidate presented to the
\* card, so in such a sector by exactly 1 when key B is the first and only
\* candidate presented (an unknown key A is not presented and not counted),
\* and the sector is counted in sectors_read.
C11_OneAttemptPerCandidate ==
    /\ (ReadRan /\ pc \notin {"after_read", "read_end"} /\ sector_hist.order # <<>>) =>
          AttemptsInSector = Len(calls.auth_log)
    /\ (sector_hist.order # <<>> /\ ~KeyAKnown /\ KeyBKnown /\ ReadAllWith(DumpKeyB)
           /\ pc \in {"sector_end", "sector_loop"}) =>
          /\ calls.auth_log = <<DumpKeyB>>
          /\ AttemptsInSector = 1
          /\ pc = "sector_loop" =>
                /\ CallsSector \in sector_hist.ok
                /\ verify_tracker.sectors_read = Cardinality(sector_hist.ok)

\* a sector with only key B known was read with key B and counted as read
C11_Witness ==
    /\ pc = "sector_loop"
    /\ sector_hist.order # <<>>
    /\ ~KeyAKnown
    /\ KeyBKnown
    /\ ReadAllWith(DumpKeyB)
    /\ CallsSector \in sector_hist.ok
    /\ verify_tracker.auth_attempts > sector_hist.attempts

\* the run of this scene entry went without any error answer of the card:
\* every sector authenticated with its first candidate and every block was
\* read at the first attempt
CleanRun == faults_left = MaxFaults

\* a finished run over a 1K card whose dump knows key A of every sector
FinishedRun1KKeyA ==
    /\ mf_classic_data.type = "1K"
    /\ mf_classic_data.key_a_mask = SectorsOf("1K")
    /\ CleanRun
    /\ verify_tracker.reading_complete
    /\ pc = "idle"

C13_ReauthFailureAbortsSector ==
    calls.reauth_failed =>
        /\ calls.last.op = "reauth"
        /\ calls.last.result # "None"
        /\ pc = "sector_end" => ~sector_success
        /\ pc = "sector_loop" => CallsSector \in sector_hist.failed

\* C14: once a block read has answered an error other than timeout, no
\* further card call is made for that sector (no retry of the block, no read
\* of a later block, no authentication with a later candidate), and the
\* sector is reported as failed.
C14_HardErrorAbortsSector ==
    calls.hard_error =>
        /\ calls.last.op = "read"
        /\ calls.last.result \notin {"None", "Timeout"}
        /\ pc = "sector_end" => ~sector_success
        /\ pc = "sector_loop" => CallsSector \in sector_hist.failed

\* the re-authentications a complete read of sector s passes: one before
\* every positive even position
ReauthsOf(s) == Cardinality({p \in 1 .. (mf_classic_get_blocks_num_in_sector(s) - 1) : p % 2 = 0})

\* the last key attempt of the sector authenticated, read every block of the
\* sector and passed every re-authentication
CompleteAttempt ==
    /\ sector_hist.order # <<>>
    /\ calls.auth_log # <<>>
    /\ calls.reads.ok = mf_classic_get_blocks_num_in_sector(CallsSector)
    /\ calls.reads.reauths = ReauthsOf(CallsSector)
    /\ calls.last.op = "read"
    /\ calls.last.result = "None"
    /\ calls.last.key = calls.auth_log[Len(calls.auth_log)]

\* C15: read_sector_with_keys returns true exactly when one candidate
\* authenticated and, under it, every block was read and every
\* re-authentication passed; exactly then both known-key bits of the sector
\* are set in the read image, whichever key type did it; a failed sector has
\* neither bit.
C15_SuccessIffCompleteAttempt ==
    /\ pc = "sector_end" =>
          /\ sector_success <=> CompleteAttempt
          /\ sector_success <=> sector \in target_data.key_a_mask
          /\ sector_success <=> sector \in target_data.key_b_mask
    /\ ReadRan =>
          /\ \A s \in sector_hist.ok :
                s \in target_data.key_a_mask /\ s \in target_data.key_b_mask
          /\ \A s \in sector_hist.failed :
                s \notin target_data.key_a_mask /\ s \notin target_data.key_b_mask
          /\ target_data.key_a_mask = target_data.key_b_mask
          /\ target_data.key_a_mask \subseteq
                sector_hist.ok \cup (IF pc = "sector_end" THEN {sector} ELSE {})

\* a 16-block sector read completely with the dump's key B, after key A had
\* failed: both bits are set
C15_Witness ==
    /\ pc = "sector_end"
    /\ sector_success
    /\ CompleteAttempt
    /\ calls.auth_log = <<DumpKeyA, DumpKeyB>>
    /\ mf_classic_get_blocks_num_in_sector(sector) = 16
    /\ sector \in target_data.key_a_mask
    /\ sector \in target_data.key_b_mask

\* auth_successes counted since the sector of the recorded calls was started
SuccessesInSector == verify_tracker.auth_successes - sector_hist.successes

\* the read of this scene entry has gone through its sector loop
ReadFinished == verify_tracker.reading_complete /\ pc \in {"after_read", "idle"}

\* C16: the sectors are started in the order 0, 1, 2, ..., each once, whatever
\* failed before; a finished read has started every sector of the card and
\* counted each as read or as failed; and a sector in which no candidate
\* authenticated is counted in sectors_failed.
C16_FailureDoesNotStopLoop ==
    /\ \A i \in 1 .. Len(sector_hist.order) : sector_hist.order[i] = i - 1
    /\ Len(sector_hist.order) <= mf_classic_get_total_sectors_num(mf_classic_data.type)
    /\ (ReadRan /\ sector_hist.order # <<>>) =>
          /\ verify_tracker.sectors_failed = Cardinality(sector_hist.failed)
          /\ verify_tracker.sectors_read = Cardinality(sector_hist.ok)
          /\ sector_hist.ok \cap sector_hist.failed = {}
    /\ ReadFinished =>
          /\ Len(sector_hist.order) = mf_classic_get_total_sectors_num(mf_classic_data.type)
          /\ sector_hist.ok \cup sector_hist.failed = SectorsOf(mf_classic_data.type)
    /\ (pc = "sector_loop" /\ sector_hist.order # <<>> /\ SuccessesInSector = 0) =>
          /\ CallsSector \in sector_hist.failed
          /\ Len(calls.auth_log) = Len(keys_to_try(mf_classic_data, CallsSector))

\* a second sector has just failed with no candidate authenticated, and the
\* loop stands before a further sector
C16_Witness ==
    /\ pc = "sector_loop"
    /\ sector_hist.order # <<>>
    /\ SuccessesInSector = 0
    /\ CallsSector \in sector_hist.failed
    /\ Cardinality(sector_hist.failed) >= 2
    /\ sector < verify_tracker.total_sectors

\* C17: while the handler is in the read, from before the first
\* authentication on, the detection poller is stopped and freed, app->poller
\* is NULL and the worker thread is outside the callback; and every card call
\* belongs to the one sector the loop is at.
C17_NoCardCallWhilePollerActive ==
    /\ ReadRan => poller = "NULL" /\ poller_obj = "freed" /\ cb = "none"
    /\ (InSectorLoop /\ calls.last.op # "none") =>
          /\ sector_hist.order # <<>>
          /\ (pc # "sector_loop" => CallsSector = sector)
          /\ calls.last.block >= mf_classic_get_first_block_num_of_sector(CallsSector)
          /\ calls.last.block < mf_classic_get_first_block_num_of_sector(CallsSector)
                                   + mf_classic_get_blocks_num_in_sector(CallsSector)

\* the first authentication of sector 0 has been answered; the poller is gone
C17_Witness ==
    /\ pc = "block_loop"
    /\ sector = 0
    /\ calls.last.op = "auth"
    /\ calls.prev.op = "none"
    /\ poller = "NULL"
    /\ poller_obj = "freed"

\* C18: the scene state is Reading while the sector loop runs, and it is
\* Comparison only after a read that finished with no failed sector.
C18_StateForwardOnly ==
    /\ InSectorLoop => scene_state = "Reading"
    /\ scene_state = "Comparison" =>
          verify_tracker.reading_complete /\ verify_tracker.sectors_failed = 0

\* C19: with a Back press waiting, the sector loop does not start a further
\* sector at its next loop test, and the handler does not go on to the
\* comparison.
C19_BackCheckedBetweenSectors ==
    [][/\ (back_pending /\ pc = "sector_loop") => pc' # "key_loop"
       /\ (back_pending /\ pc = "after_read") =>
             "success" \notin shown' /\ "differences" \notin shown']_vars

\* C20: the worker thread is never between the callback's write of
\* current_operation and its read of the tracker while the GUI thread is
\* between the handler's write of current_operation and its read of the
\* tracker.
C20_TrackerNotSharedConcurrently ==
    ~(cb = "card_detected" /\ pc = "card_detected")

\* the tracker's counters are all 0 and its flag is false
CountersFresh(t) ==
    /\ t.current_sector = 0
    /\ t.total_sectors = 0
    /\ t.sectors_read = 0
    /\ t.sectors_failed = 0
    /\ t.auth_attempts = 0
    /\ t.auth_successes = 0
    /\ t.blocks_compared = 0
    /\ t.blocks_different = 0
    /\ t.reading_complete = FALSE

\* the scene was entered and nothing has touched the tracker since: the
\* poller runs and has reported nothing yet
JustEntered ==
    /\ scene = "Verify"
    /\ poller_obj = "running"
    /\ poller_events = "none"
    /\ pc = "idle"

\* C21 as stated: after scene entry with a valid dump all counters are 0,
\* reading_complete is false and all three text fields are empty.
C21_FreshSessionAllTextsEmpty ==
    JustEntered =>
        /\ CountersFresh(verify_tracker)
        /\ verify_tracker.current_operation = <<>>
        /\ verify_tracker.last_result = <<>>
        /\ verify_tracker.error_details = <<>>

\* C21 amended: every scene entry, whatever the run before it left in the
\* static tracker, leaves all counters 0, reading_complete false, last_result
\* and error_details empty and current_operation holding only the entry
\* prompt; every scene exit frees the three strings.
C21_FreshSession ==
    [][/\ (scene # "Verify" /\ scene' = "Verify") =>
             /\ CountersFresh(verify_tracker')
             /\ verify_tracker'.current_operation = <<"Place Mi Band near Flipper">>
             /\ verify_tracker'.last_result = <<>>
             /\ verify_tracker'.error_details = <<>>
             /\ verify_tracker'.allocated
       /\ (scene = "Verify" /\ scene' # "Verify") =>
             /\ ~verify_tracker'.allocated
             /\ verify_tracker'.current_operation = <<>>
             /\ verify_tracker'.last_result = <<>>
             /\ verify_tracker'.error_details = <<>>]_vars

\* a finished run has left its counters in the static tracker, the exit has
\* freed the strings, and the scene can be entered again
C21_Witness ==
    /\ scene = "MainMenu"
    /\ pc = "idle"
    /\ queue = <<>>
    /\ ~back_pending
    /\ is_valid_nfc_data
    /\ ~verify_tracker.allocated
    /\ verify_tracker.reading_complete
    /\ verify_tracker.sectors_failed > 0
    /\ verify_tracker.auth_attempts > 0
    /\ verify_tracker.blocks_compared = 0

\* C22: after the comparison pass the stored set of mismatched block indices
\* is the set of non-excluded blocks whose bytes differ between dump and read
\* image, and its size is blocks_different.
C22_MismatchedIndicesRecorded ==
    Compared =>
        /\ StoredDifferentIndices = Mismatched
        /\ Cardinality(StoredDifferentIndices) = verify_tracker.blocks_different

\* C23: no step changes the reference dump: its card type, its key-known
\* flags and its block contents stay what they were at scene entry; the
\* steps that write an image write the freshly read one.
C23_DumpNeverWritten ==
    [][/\ mf_classic_data'.type = mf_classic_data.type
       /\ mf_classic_data'.key_a_mask = mf_classic_data.key_a_mask
       /\ mf_classic_data'.key_b_mask = mf_classic_data.key_b_mask
       /\ mf_classic_data'.block = mf_classic_data.block]_vars

\* a finished read of a dump with unknown keys: the read image has every
\* sector marked and every block filled, the dump still has its unknown keys
C23_Witness ==
    /\ scene = "Verify"
    /\ Compared
    /\ target_data.key_a_mask = SectorsOf(mf_classic_data.type)
    /\ target_data.key_b_mask = SectorsOf(mf_classic_data.type)
    /\ \A b \in BlocksOf(mf_classic_data.type) : target_data.block[b] # ZeroBlock
    /\ mf_classic_data.key_a_mask # SectorsOf(mf_classic_data.type)
    /\ mf_classic_data.key_b_mask # SectorsOf(mf_classic_data.type)
    /\ mf_classic_data \in Dumps

\* C24: in every state the progress counters are consistent: successes never
\* exceed attempts, different blocks never exceed compared blocks, read plus
\* failed sectors never exceed total_sectors, and are equal to it with
\* current_sector = total_sectors once reading_complete is set; the result
\* of the read is success exactly when no sector failed.
C24_CountersConsistent ==
    /\ verify_tracker.auth_successes <= verify_tracker.auth_attempts
    /\ verify_tracker.blocks_different <= verify_tracker.blocks_compared
    /\ verify_tracker.sectors_read + verify_tracker.sectors_failed
          <= verify_tracker.total_sectors
    /\ verify_tracker.reading_complete =>
          /\ verify_tracker.sectors_read + verify_tracker.sectors_failed
                = verify_tracker.total_sectors
          /\ verify_tracker.current_sector = verify_tracker.total_sectors
    /\ ReadRan => (overall_success <=> verify_tracker.sectors_failed = 0)

\* the read has returned failure after sectors of both kinds, with more
\* authentications tried than succeeded
C24_Witness ==
    /\ pc = "after_read"
    /\ ~overall_success
    /\ verify_tracker.reading_complete
    /\ verify_tracker.sectors_read > 0
    /\ verify_tracker.sectors_failed > 0
    /\ verify_tracker.auth_successes < verify_tracker.auth_attempts
    /\ verify_tracker.auth_successes > 0

\* the GUI thread is inside miband_verify_read_card, before its return
InRead == pc \in {"sector_loop", "key_loop", "block_loop", "reauth", "read", "key_end",
                  "sector_end", "read_end"}

\* the card calls recorded for the sector keep within the loops' bounds
CallsBounded ==
    sector_hist.order # <<>> =>
        LET blocks == mf_classic_get_blocks_num_in_sector(CallsSector)
        IN  /\ Len(calls.auth_log) <= 3
            /\ calls.reads.reauth_calls <= blocks \div 2 - 1
            /\ calls.reads.read_calls <= 3 * blocks
            /\ calls.reads.nth <= 3

\* C25: whatever the card answers, the handler does not stay inside the read
\* for ever, and it leaves the read only at its end, with reading_complete
\* set; in a sector at most 3 initial authentications
\* are issued, and in one key attempt at most blocks_in_sector / 2 - 1
\* re-authentications and at most 3 * blocks_in_sector block reads.
C25_ReadTerminatesWithinBounds ==
    /\ []<>(~InRead)
    /\ [][(InRead /\ ~InRead') =>
             (pc' = "after_read" /\ verify_tracker'.reading_complete)]_vars
    /\ []CallsBounded

\* a read that met errors and came to its end: the last sector took three
\* initial authentications, and its last attempt every re-authentication
C25_Witness ==
    /\ pc = "after_read"
    /\ verify_tracker.reading_complete
    /\ faults_left < MaxFaults
    /\ Len(calls.auth_log) = 3
    /\ calls.reads.reauth_calls
          = mf_classic_get_blocks_num_in_sector(CallsSector) \div 2 - 1
    /\ calls.reads.read_calls >= mf_classic_get_blocks_num_in_sector(CallsSector)

\* the handle names a poller if and only if there is one that is not freed
HandleMatchesObject ==
    (poller = "NULL") <=> (poller_obj \in {"none", "freed"})

====
